---- MODULE Spec2Model ----
(***************************************************************************)
(* A model of the filter application engine, the coefficient designers,    *)
(* the launcher and GUI parameters and the envelope generator of           *)
(* week11_audio_filters (src/main.py, src/src/design_fir.py,               *)
(* src/src/design_iir.py, src/app.py, src/src/generate.py).                *)
(*                                                                         *)
(* The samples and coefficients of apply_fir and apply_iir are integers:   *)
(* the two functions use only +, - and * on them, so the integer results   *)
(* are the exact results of the code on the same integer-valued float      *)
(* inputs.  The coefficients the designers compute are fixed-point         *)
(* numbers, as described with the designers.                               *)
(* Sequences are 1-based here and 0-based in the source; index i of the    *)
(* source is index i+1 of the model.                                       *)
(***************************************************************************)
EXTENDS Integers, Sequences, FiniteSets, TLC

VARIABLES
    firSignal,  \* apply_fir: the signal argument
    firTaps,    \* apply_fir: the taps argument
    firOut      \* apply_fir: what the call produced

VARIABLES
    sos,        \* the SOS cascade shared by the apply_iir calls (read only)
    pc,         \* per caller: "idle", "running", "returned" or "raised"
    signal,     \* per caller: the signal argument of its current call
    pos,        \* per caller: the number of samples its call has filtered
    zi,         \* per caller: the delay lines (z1, z2) of its call, one per section
    buf,        \* per caller: the working copy of the signal, filtered in place
    stale       \* per caller: its current call began where an earlier call of
                \* the caller had left non-zero delay lines behind

VARIABLES
    call,       \* a designer call: the function and its arguments
    design      \* what the designer call produced

VARIABLES
    hostOption, \* _resolve_host: the argument, None or a string
    host         \* _resolve_host: what the call produced

VARIABLES
    argv,       \* run_app: the argument list
    environ,    \* os.environ: STREAMLIT_HOST, STREAMLIT_PORT, STREAMLIT_RUNNING
    sysArgv     \* sys.argv as run_app leaves it for streamlit

VARIABLES
    main,       \* main's apply phase: the signal x, the designed kernel and
                \* cascades, and the buffer y the last apply call produced
    gui,        \* app_main: the filter type selected and the file's sample rate
    adsr        \* adsr_envelope: its arguments, loop position and list env

firVars == <<firSignal, firTaps, firOut>>
iirVars == <<sos, pc, signal, pos, zi, buf, stale>>
designVars == <<call, design>>
appVars == <<hostOption, host, argv, environ, sysArgv>>
vars == <<firVars, iirVars, designVars, appVars, main, gui, adsr>>

(***************************************************************************)
(* Bounds of the model.                                                    *)
(***************************************************************************)
MaxSigLen == 4
MaxTaps == 4
MaxIirLen == 3
MaxSections == 2
MaxFreq == 6
MaxNumtaps == 5
MaxOrder == 4
MaxPad == 1
MaxArgs == 4
MaxMainLen == 3
MaxChainSections == 3
MaxCalls == 4
MaxEnv == 6

Samples == {-1, 0, 1}

RECURSIVE SeqsUpTo(_, _)
SeqsUpTo(S, k) ==
    IF k = 0 THEN {<<>>}
    ELSE LET shorter == SeqsUpTo(S, k - 1)
         IN  shorter \cup {Append(s, e) : s \in {t \in shorter : Len(t) = k - 1}, e \in S}

\* f[lo] + ... + f[hi], added up by halves.
RECURSIVE Sum(_, _, _)
Sum(f, lo, hi) ==
    IF lo > hi THEN 0
    ELSE IF lo = hi THEN f[lo]
    ELSE LET mid == (lo + hi) \div 2
         IN  Sum(f, lo, mid) + Sum(f, mid + 1, hi)

(***************************************************************************)
(* apply_fir (src/main.py:44-46): np.convolve(signal, taps, mode="same").  *)
(*                                                                         *)
(* np.convolve rejects an empty operand, swaps the operands when the       *)
(* second is the longer one, and correlates the longer operand with the    *)
(* reversed shorter one.  In mode "same" the correlation has the length of *)
(* the longer operand and starts n \div 2 samples to the left, n the       *)
(* length of the shorter operand.                                          *)
(***************************************************************************)
\* A plausible slip: correlating with the kernel as given (no flip).
NoReverse(v) == v

Reverse(v) == [i \in 1..Len(v) |-> v[Len(v) + 1 - i]]

\* A plausible slip: the left overhang one short for an even kernel.
SameLeftShort(n) == (n - 1) \div 2

\* The number of leading outputs computed with the kernel hanging over the
\* left edge (n_left of the "same" mode).
SameLeft(n) == n \div 2

\* The length of the "same" output for operands of lengths n1 >= n2.
SameLength(n1, n2) == n1

\* multiarray.correlate(a, w, mode="same") for Len(a) >= Len(w) >= 1.
CorrelateSame(a, w) ==
    LET n == Len(w)
        left == SameLeft(n)
        term(i) == [u \in 1..n |->
                      LET k == i - left + u - 1
                      IN  IF k \in 1..Len(a) THEN a[k] * w[u] ELSE 0]
    IN  [i \in 1..SameLength(Len(a), n) |-> Sum(term(i), 1, n)]

\* np.convolve(a, v, mode="same"): the returned array, or the error raised.
ConvolveSame(a, v) ==
    IF Len(a) = 0 \/ Len(v) = 0
    THEN [status |-> "ValueError", value |-> <<>>]
    ELSE IF Len(v) > Len(a)
         THEN [status |-> "returned", value |-> CorrelateSame(v, Reverse(a))]
         ELSE [status |-> "returned", value |-> CorrelateSame(a, Reverse(v))]

apply_fir(sig, taps) == ConvolveSame(sig, taps)

\* A plausible slip: the kernel flipped in place (v.reverse()).
KernelFlippedInPlace(taps) == Reverse(taps)

\* What a call leaves in the array passed as taps: np.convolve flips a view
\* (v[::-1]) and correlate only reads it, so the array is as it was.
KernelAfter(taps) == taps

Pending == [status |-> "pending", value |-> <<>>]

FirIdle ==
    /\ firSignal = <<>>
    /\ firTaps = <<>>
    /\ firOut = Pending

(***************************************************************************)
(* The coefficient designers (src/src/design_fir.py, design_iir.py).       *)
(*                                                                         *)
(* A designer call is a record: fn the designer, f its frequency argument  *)
(* (the cutoff, the lower band edge, the center frequency, or the          *)
(* transition width of adaptive_numtaps), f2 its second frequency argument *)
(* (the upper band edge, or the bandwidth of a notch), fs the sampling     *)
(* frequency, k its integer argument (numtaps, order, or the attenuation   *)
(* in dB of adaptive_numtaps), g the gain in dB and q the Q factor of an   *)
(* equalizer section.  Frequency arguments are integers; a frequency that  *)
(* a designer computes is a fraction <<numerator, denominator>> in Hz      *)
(* (notch halves the bandwidth), and a frequency normalised by Nyquist is  *)
(* a fraction too.  The designers do no checking of their own: a result    *)
(* records the routine whose raise statement ended the call.               *)
(*                                                                         *)
(* Coefficient values are floats in the source.  They are fixed-point      *)
(* numbers here: the integer v stands for v / Resolution, and every        *)
(* product and quotient rounds toward zero, which is, like the rounding of *)
(* floats, symmetric in the sign.  sin, cos, sqrt, the Bessel function I0  *)
(* and 10 ** x are the approximations given below.                         *)
(***************************************************************************)
Resolution == 2048

Abs(a) == IF a < 0 THEN -a ELSE a

Sign(a) == IF a < 0 THEN -1 ELSE IF a > 0 THEN 1 ELSE 0

RECURSIVE Gcd(_, _)
Gcd(a, b) == IF b = 0 THEN a ELSE Gcd(b, a % b)

\* a / b rounded toward zero, b # 0.
Quotient(a, b) == Sign(a) * Sign(b) * (Abs(a) \div Abs(b))

\* The fixed-point value of the fraction n / d.
Fx(n, d) == Quotient(n * Resolution, d)

FxMul(a, b) == Quotient(a * b, Resolution)

FxDiv(a, b) == Quotient(a * Resolution, b)

RECURSIVE SqrtBetween(_, _, _)
SqrtBetween(k, lo, hi) ==
    IF lo >= hi THEN lo
    ELSE LET mid == (lo + hi + 1) \div 2
         IN  IF mid * mid <= k THEN SqrtBetween(k, mid, hi)
                               ELSE SqrtBetween(k, lo, mid - 1)

\* math.sqrt(a) for a >= 0.
FxSqrt(a) == SqrtBetween(a * Resolution, 0, a + Resolution)

\* sin(pi * r) for 0 <= r <= 1, by Bhaskara's formula
\* 16 r (1 - r) / (5 - 4 r (1 - r)).
HalfTurn(r) ==
    LET p == FxMul(r, Resolution - r)
    IN  FxDiv(16 * p, 5 * Resolution - 4 * p)

\* math.sin(pi * t): odd, and of period 2 in t.
SinPi(t) ==
    LET r == Abs(t) % (2 * Resolution)
    IN  Sign(t) * (IF r <= Resolution THEN HalfTurn(r)
                                      ELSE -HalfTurn(r - Resolution))

\* math.cos(pi * t) = sin(pi * (t + 1/2)).
CosPi(t) == SinPi(t + Resolution \div 2)

Pi == Fx(355, 113)

\* np.sinc(x) = sin(pi x) / (pi x), and 1 at x = 0.
Sinc(x) == IF x = 0 THEN Resolution ELSE FxDiv(SinPi(x), FxMul(Pi, x))

\* special.i0(z) as a function of x = (z / 2) ** 2: the series
\* 1 + x + x**2 / 4 + x**3 / 36 = 1 + x (1 + x/4 (1 + x/9)).
I0(x) ==
    Resolution
        + FxMul(x, Resolution
                     + FxMul(Quotient(x, 4), Resolution + Quotient(x, 9)))

\* A frequency in Hz given as an integer.
Hz(f) == <<f, 1>>

\* a < b for fractions with positive denominators.
FracLess(a, b) == a[1] * b[2] < b[1] * a[2]

\* The fraction n / d, d > 0, in lowest terms.
Reduced(n, d) == LET g == Gcd(Abs(n), d) IN <<n \div g, d \div g>>

NoDesign ==
    [status |-> "none", kind |-> "none", size |-> 0, origin |-> "none",
     val |-> <<>>]
Raised(err, routine) ==
    [status |-> err, kind |-> "none", size |-> 0, origin |-> routine,
     val |-> <<>>]
Returned(kind, size, val) ==
    [status |-> "returned", kind |-> kind, size |-> size, origin |-> "none",
     val |-> val]

DesignIdle ==
    /\ call = [fn |-> "none", f |-> 0, f2 |-> 0, fs |-> 0, k |-> 0, g |-> 0,
               q |-> <<0, 1>>]
    /\ design = NoDesign

\* cutoff / nyq with nyq = fs / 2, as a fraction <<numerator, denominator>>.
Normalized(f, fs) == <<2 * f, fs>>

\* The same for a frequency that is a fraction, in lowest terms.
NormalizedFrac(f, fs) == Reduced(2 * f[1], f[2] * fs)

\* A plausible slip: Nyquist itself accepted as a cutoff.
OutsideUnitIntervalLax(w) == w[1] <= 0 \/ w[1] > w[2]

\* w <= 0 or w >= 1 for a fraction w with a positive denominator.
OutsideUnitInterval(w) == w[1] <= 0 \/ w[1] >= w[2]

\* The default beta of the FIR designers (the Kaiser window parameter).
Beta == 8

\* windows.kaiser(M, beta)[n]: all ones for M <= 1, otherwise
\* i0(beta * sqrt(1 - ((n - alpha) / alpha) ** 2)) / i0(beta), alpha = (M - 1) / 2.
\* The value is kept as the fraction <<numerator, denominator>>: at the
\* ends of the window it is 1 / i0(8), below 0.003.
Kaiser(M, n) ==
    IF M <= 1 THEN <<Resolution, Resolution>>
    ELSE LET r == Fx(2 * n - (M - 1), M - 1)
             u == Resolution - FxMul(r, r)
         IN  <<I0(Quotient(Beta * Beta * u, 4)),
               I0(Quotient(Beta * Beta * Resolution, 4))>>

\* A plausible slip: the kernel's time axis starting at its first tap.
TapOffsetFromStart(numtaps, i) == i * Resolution

\* m = np.arange(0, numtaps) - alpha with alpha = 0.5 * (numtaps - 1).
TapOffset(numtaps, i) == Quotient((2 * i - (numtaps - 1)) * Resolution, 2)

\* np.hstack(([0.0] * pass_zero, cutoff, [1.0] * pass_nyquist)).
BandEdges(w, pass_zero, pass_nyquist) ==
    (IF pass_zero THEN <<0>> ELSE <<>>)
        \o [i \in 1..Len(w) |-> Fx(w[i][1], w[i][2])]
        \o (IF pass_nyquist THEN <<Resolution>> ELSE <<>>)

\* The kernel of firwin: for every band (left, right) the ideal response
\* right * sinc(right * m) - left * sinc(left * m), times the window, scaled
\* to unit gain at the scale frequency of the first band.  The window's
\* denominator is the same for every tap and cancels in the scaling: h and
\* s are the kernel and the scale sum times that denominator.  A zero scale
\* sum divides to non-finite taps ("nan"), it does not raise.
FirwinTaps(numtaps, w, pass_zero, pass_nyquist) ==
    LET e == BandEdges(w, pass_zero, pass_nyquist)
        nb == Len(e) \div 2
        m(i) == TapOffset(numtaps, i)
        ideal(i) ==
            Sum([j \in 1..nb |->
                    FxMul(e[2 * j], Sinc(FxMul(e[2 * j], m(i))))
                      - FxMul(e[2 * j - 1], Sinc(FxMul(e[2 * j - 1], m(i))))],
                1, nb)
        h == [i \in 0..(numtaps - 1) |-> FxMul(ideal(i), Kaiser(numtaps, i)[1])]
        scale_frequency ==
            IF e[1] = 0 THEN 0
            ELSE IF e[2] = Resolution THEN Resolution
            ELSE Quotient(e[1] + e[2], 2)
        s == Sum([i \in 0..(numtaps - 1) |->
                     FxMul(h[i], CosPi(FxMul(m(i), scale_frequency)))],
                 0, numtaps - 1)
    IN  [i \in 1..numtaps |-> IF s = 0 THEN "nan" ELSE FxDiv(h[i - 1], s)]

\* firwin(numtaps, cutoff, window=('kaiser', beta), pass_zero=..., fs=fs),
\* cutoff a sequence of frequencies in Hz: every cutoff must lie inside
\* (0, fs/2), the cutoffs must be strictly increasing, and an even-length
\* kernel must have no response at Nyquist.
Firwin(numtaps, cutoff, fs, pass_zero) ==
    LET w == [i \in 1..Len(cutoff) |-> NormalizedFrac(cutoff[i], fs)]
        pass_nyquist == (Len(cutoff) % 2 = 1) # pass_zero
    IN  IF \E i \in 1..Len(w) : OutsideUnitInterval(w[i])
        THEN Raised("ValueError", "firwin")
        ELSE IF \E i \in 1..(Len(w) - 1) : ~FracLess(w[i], w[i + 1])
        THEN Raised("ValueError", "firwin")
        ELSE IF pass_nyquist /\ numtaps % 2 = 0
        THEN Raised("ValueError", "firwin")
        ELSE Returned("taps", numtaps,
                      FirwinTaps(numtaps, w, pass_zero, pass_nyquist))

lowpass(cutoff, fs, numtaps) == Firwin(numtaps, <<Hz(cutoff)>>, fs, TRUE)

highpass(cutoff, fs, numtaps) == Firwin(numtaps, <<Hz(cutoff)>>, fs, FALSE)

bandpass(f_low, f_high, fs, numtaps) ==
    Firwin(numtaps, <<f_low, f_high>>, fs, FALSE)

bandstop(f_low, f_high, fs, numtaps) ==
    Firwin(numtaps, <<f_low, f_high>>, fs, TRUE)

\* A plausible slip: the whole bandwidth taken on each side of the center.
NotchFullWidth(center_freq, bandwidth, fs, numtaps) ==
    bandstop(<<center_freq - bandwidth, 1>>, <<center_freq + bandwidth, 1>>,
             fs, numtaps)

\* f_low = center_freq - bandwidth / 2; f_high = center_freq + bandwidth / 2
notch(center_freq, bandwidth, fs, numtaps) ==
    bandstop(<<2 * center_freq - bandwidth, 2>>,
             <<2 * center_freq + bandwidth, 2>>, fs, numtaps)

\* A plausible slip: one section for every pole.
SectionCountPerPole(N, btype) ==
    LET poles == IF btype \in {"bandpass", "bandstop"} THEN 2 * N ELSE N
    IN  IF poles = 0 THEN 1 ELSE poles

\* zpk2sos: a band transformation doubles the N poles of the prototype;
\* the poles are paired into (poles + 1) // 2 sections, and a filter
\* without poles is one gain-only section.
SectionCount(N, btype) ==
    LET poles == IF btype \in {"bandpass", "bandstop"} THEN 2 * N ELSE N
    IN  IF poles = 0 THEN 1 ELSE (poles + 1) \div 2

\* iirfilter(N, Wn, btype=..., output='sos', ftype=...), Wn a sequence of
\* one or two normalised frequencies: every Wn must be positive, two
\* frequencies must be increasing, the analog prototype rejects a negative
\* order, and the digital design rejects a Wn outside (0, 1).  The cascade
\* is a function of the arguments, which is all that is kept of it, with
\* the number of first-order sections in it.
Iirfilter(N, Wn, btype, ftype) ==
    IF \E i \in 1..Len(Wn) : Wn[i][1] <= 0
    THEN Raised("ValueError", "iirfilter")
    ELSE IF Len(Wn) > 1 /\ ~FracLess(Wn[1], Wn[2])
    THEN Raised("ValueError", "iirfilter")
    ELSE IF N < 0 THEN Raised("ValueError", "iirfilter")
    ELSE IF \E i \in 1..Len(Wn) : OutsideUnitInterval(Wn[i])
    THEN Raised("ValueError", "iirfilter")
    ELSE Returned("sos", SectionCount(N, btype),
                  [ftype |-> ftype, N |-> N, Wn |-> Wn, btype |-> btype,
                   first_order |->
                       IF btype \in {"lowpass", "highpass"} THEN N % 2 ELSE 0])

\* The scipy function and the btype each IIR designer passes on.
IirDesigners ==
    [butter_lowpass |-> <<"butter", "lowpass">>,
     butter_highpass |-> <<"butter", "highpass">>,
     butter_bandpass |-> <<"butter", "bandpass">>,
     butter_bandstop |-> <<"butter", "bandstop">>,
     cheby1_lowpass |-> <<"cheby1", "lowpass">>,
     cheby1_highpass |-> <<"cheby1", "highpass">>,
     cheby1_bandpass |-> <<"cheby1", "bandpass">>,
     cheby1_bandstop |-> <<"cheby1", "bandstop">>,
     cheby2_lowpass |-> <<"cheby2", "lowpass">>,
     cheby2_highpass |-> <<"cheby2", "highpass">>,
     cheby2_bandstop |-> <<"cheby2", "bandstop">>,
     ellip_lowpass |-> <<"ellip", "lowpass">>,
     ellip_highpass |-> <<"ellip", "highpass">>,
     ellip_bandstop |-> <<"ellip", "bandstop">>,
     bessel_lowpass |-> <<"bessel", "lowpass">>,
     bessel_highpass |-> <<"bessel", "highpass">>,
     bessel_bandpass |-> <<"bessel", "bandpass">>]

\* A plausible slip: the cutoff normalised by fs instead of Nyquist.
IirLowHighOverFs(fn, cutoff, fs, order) ==
    Iirfilter(order, <<Reduced(cutoff, fs)>>, IirDesigners[fn][2],
              IirDesigners[fn][1])

\* butter_*, cheby1_*, cheby2_*, ellip_* and bessel_* lowpass and highpass,
\* with their default ripple and attenuation.
IirLowHigh(fn, cutoff, fs, order) ==
    Iirfilter(order, <<NormalizedFrac(Hz(cutoff), fs)>>, IirDesigners[fn][2],
              IirDesigners[fn][1])

\* The bandpass and bandstop designers of the same families.
IirBandEdges(fn, f_low, f_high, fs, order) ==
    Iirfilter(order, <<NormalizedFrac(f_low, fs), NormalizedFrac(f_high, fs)>>,
              IirDesigners[fn][2], IirDesigners[fn][1])

butter_bandstop(f_low, f_high, fs, order) ==
    IirBandEdges("butter_bandstop", f_low, f_high, fs, order)

butter_notch(center_freq, bandwidth, fs, order) ==
    butter_bandstop(<<2 * center_freq - bandwidth, 2>>,
                    <<2 * center_freq + bandwidth, 2>>, fs, order)

\* ceil(p / q) for q # 0.
CeilDiv(p, q) == IF q > 0 THEN -((-p) \div q) ELSE -(p \div (-q))

\* kaiserord(ripple, width), width the fraction <<num, den>>:
\*   numtaps = (A - 7.95) / 2.285 / (pi * width) + 1, rounded up,
\* with pi taken as 355/113.  Raises for A < 8 and on the division by a
\* zero width.
Kaiserord(ripple, width) ==
    LET A == IF ripple < 0 THEN -ripple ELSE ripple
    IN  IF A < 8 THEN Raised("ValueError", "kaiserord")
        ELSE IF width[1] = 0 THEN Raised("ZeroDivisionError", "kaiserord")
        ELSE Returned("numtaps",
                 CeilDiv((100 * A - 795) * 2 * width[2] * 113,
                         457 * 355 * width[1]) + 1, <<>>)

\* A plausible slip: an even estimate rounded down to the odd below.
MakeOddDown(numtaps) == IF numtaps % 2 = 0 THEN numtaps - 1 ELSE numtaps

\* if numtaps % 2 == 0: numtaps += 1
MakeOdd(numtaps) == IF numtaps % 2 = 0 THEN numtaps + 1 ELSE numtaps

adaptive_numtaps(transition_width, fs, attenuation_db) ==
    LET est == Kaiserord(attenuation_db, Normalized(transition_width, fs))
    IN  IF est.status = "returned"
        THEN Returned("numtaps", MakeOdd(est.size), <<>>)
        ELSE est

\* A = 10 ** (gain_db / 40) for gains that are multiples of 12 dB, where it
\* is 2 ** (gain_db / 12) to within 0.3 percent.
Amplitude(gain_db) ==
    IF gain_db >= 0 THEN Resolution * 2 ^ (gain_db \div 12)
    ELSE Resolution \div 2 ^ ((-gain_db) \div 12)

\* A plausible slip: the numerator stored as computed, not divided by a0.
StoredAsComputed(c) ==
    <<c[1], c[2], c[3], Resolution, FxDiv(c[5], c[4]), FxDiv(c[6], c[4])>>

\* np.array([[b0/a0, b1/a0, b2/a0, 1.0, a1/a0, a2/a0]]) for the
\* coefficients c = <<b0, b1, b2, a0, a1, a2>>, a0 # 0.
Stored(c) ==
    <<FxDiv(c[1], c[4]), FxDiv(c[2], c[4]), FxDiv(c[3], c[4]), Resolution,
      FxDiv(c[5], c[4]), FxDiv(c[6], c[4])>>

\* The one-section cascade of an equalizer designer; the divisions by a
\* zero a0 raise.
Section(c) ==
    IF c[4] = 0 THEN Raised("ZeroDivisionError", "division")
    ELSE Returned("sos", 1, <<Stored(c)>>)

\* A plausible slip: the gain applied to b1 as well.
PeakingWithScaledB1(A, alpha, cosw) ==
    <<Resolution + FxMul(alpha, A), FxMul(-2 * cosw, A),
      Resolution - FxMul(alpha, A),
      Resolution + FxDiv(alpha, A), -2 * cosw, Resolution - FxDiv(alpha, A)>>

\* b0 = 1 + alpha * A; b1 = -2 * cos(w0); b2 = 1 - alpha * A
\* a0 = 1 + alpha / A; a1 = -2 * cos(w0); a2 = 1 - alpha / A
Peaking(A, alpha, cosw) ==
    <<Resolution + FxMul(alpha, A), -2 * cosw, Resolution - FxMul(alpha, A),
      Resolution + FxDiv(alpha, A), -2 * cosw, Resolution - FxDiv(alpha, A)>>

\* w0 = 2 * pi * center_freq / fs is kept as w0 / pi.
parametric_eq(center_freq, gain_db, q_factor, fs) ==
    LET A == Amplitude(gain_db)
        w0 == Fx(2 * center_freq, fs)
        q == Fx(q_factor[1], q_factor[2])
    IN  IF 2 * q = 0 THEN Raised("ZeroDivisionError", "division")
        ELSE Section(Peaking(A, FxDiv(SinPi(w0), 2 * q), CosPi(w0)))

\* b0 = A * ((A+1) - (A-1)*cos(w0) + 2*sqrt(A)*alpha), and so on.
LowShelf(A, alpha, cosw) ==
    LET rootA == FxSqrt(A)
        one == Resolution
    IN  <<FxMul(A, (A + one) - FxMul(A - one, cosw) + FxMul(2 * rootA, alpha)),
          FxMul(2 * A, (A - one) - FxMul(A + one, cosw)),
          FxMul(A, (A + one) - FxMul(A - one, cosw) - FxMul(2 * rootA, alpha)),
          (A + one) + FxMul(A - one, cosw) + FxMul(2 * rootA, alpha),
          -2 * ((A - one) + FxMul(A + one, cosw)),
          (A + one) + FxMul(A - one, cosw) - FxMul(2 * rootA, alpha)>>

\* b0 = A * ((A+1) + (A-1)*cos(w0) + 2*sqrt(A)*alpha), and so on.
HighShelf(A, alpha, cosw) ==
    LET rootA == FxSqrt(A)
        one == Resolution
    IN  <<FxMul(A, (A + one) + FxMul(A - one, cosw) + FxMul(2 * rootA, alpha)),
          FxMul(-2 * A, (A - one) + FxMul(A + one, cosw)),
          FxMul(A, (A + one) + FxMul(A - one, cosw) - FxMul(2 * rootA, alpha)),
          (A + one) - FxMul(A - one, cosw) + FxMul(2 * rootA, alpha),
          2 * ((A - one) - FxMul(A + one, cosw)),
          (A + one) - FxMul(A - one, cosw) - FxMul(2 * rootA, alpha)>>

\* The common head of the two shelving designers:
\*   alpha = sin(w0) / 2 * sqrt((A + 1/A) * (1/q_factor - 1) + 2)
\* where 1 / q_factor raises for q_factor = 0 and math.sqrt raises for a
\* negative argument.  low tells the low shelf from the high shelf.
Shelving(cutoff, gain_db, fs, q_factor, low) ==
    LET A == Amplitude(gain_db)
        w0 == Fx(2 * cutoff, fs)
        q == Fx(q_factor[1], q_factor[2])
    IN  IF q = 0 THEN Raised("ZeroDivisionError", "division")
        ELSE LET radicand ==
                     FxMul(A + FxDiv(Resolution, A), FxDiv(Resolution, q) - Resolution)
                         + 2 * Resolution
             IN  IF radicand < 0 THEN Raised("ValueError", "math.sqrt")
                 ELSE LET alpha == FxMul(Quotient(SinPi(w0), 2), FxSqrt(radicand))
                      IN  Section(IF low THEN LowShelf(A, alpha, CosPi(w0))
                                         ELSE HighShelf(A, alpha, CosPi(w0)))

shelving_lowshelf(cutoff, gain_db, fs, q_factor) ==
    Shelving(cutoff, gain_db, fs, q_factor, TRUE)

shelving_highshelf(cutoff, gain_db, fs, q_factor) ==
    Shelving(cutoff, gain_db, fs, q_factor, FALSE)

FirLowHigh == {"fir_lowpass", "fir_highpass"}
FirBand == {"fir_bandpass", "fir_bandstop", "fir_notch"}
IirLow == {"butter_lowpass", "cheby1_lowpass", "cheby2_lowpass",
           "ellip_lowpass", "bessel_lowpass"}
IirHigh == {"butter_highpass", "cheby1_highpass", "cheby2_highpass",
            "ellip_highpass", "bessel_highpass"}
IirBand == {"butter_bandpass", "butter_bandstop", "butter_notch",
            "cheby1_bandpass", "cheby1_bandstop", "cheby2_bandstop",
            "ellip_bandstop", "bessel_bandpass"}
Equalizers == {"parametric_eq", "shelving_lowshelf", "shelving_highshelf"}

SampleRates == {8, 9}
Frequencies == -1..MaxFreq
Attenuations == {5, 21, 60}
Gains == {-12, 0, 12}
QFactors == {<<-1, 1>>, <<0, 1>>, <<1, 2>>, <<707, 1000>>, <<2, 1>>}

\* The arguments a designer does not take are 0.
Calls(fns, F, F2, FS, K, G, Q) ==
    [fn : fns, f : F, f2 : F2, fs : FS, k : K, g : G, q : Q]

DesignCalls ==
    Calls(FirLowHigh, Frequencies, {0}, SampleRates, 1..MaxNumtaps, {0}, {<<0, 1>>})
    \cup Calls(FirBand, Frequencies, Frequencies, SampleRates, 1..MaxNumtaps,
               {0}, {<<0, 1>>})
    \cup Calls(IirLow \cup IirHigh, Frequencies, {0}, SampleRates, -1..MaxOrder,
               {0}, {<<0, 1>>})
    \cup Calls(IirBand, Frequencies, Frequencies, SampleRates, -1..MaxOrder,
               {0}, {<<0, 1>>})
    \cup Calls({"butter_lowpass"}, {1000}, {0}, {44100}, -1..MaxOrder,
               {0}, {<<0, 1>>})
    \cup Calls({"adaptive_numtaps"}, Frequencies, {0}, SampleRates, Attenuations,
               {0}, {<<0, 1>>})
    \cup Calls(Equalizers, Frequencies, {0}, SampleRates, {0}, Gains, QFactors)

Designed(c) ==
    CASE c.fn = "fir_lowpass" -> lowpass(c.f, c.fs, c.k)
      [] c.fn = "fir_highpass" -> highpass(c.f, c.fs, c.k)
      [] c.fn = "fir_bandpass" -> bandpass(Hz(c.f), Hz(c.f2), c.fs, c.k)
      [] c.fn = "fir_bandstop" -> bandstop(Hz(c.f), Hz(c.f2), c.fs, c.k)
      [] c.fn = "fir_notch" -> notch(c.f, c.f2, c.fs, c.k)
      [] c.fn \in IirLow \cup IirHigh -> IirLowHigh(c.fn, c.f, c.fs, c.k)
      [] c.fn = "butter_bandstop" -> butter_bandstop(Hz(c.f), Hz(c.f2), c.fs, c.k)
      [] c.fn = "butter_notch" -> butter_notch(c.f, c.f2, c.fs, c.k)
      [] c.fn \in IirBand \ {"butter_bandstop", "butter_notch"} ->
             IirBandEdges(c.fn, Hz(c.f), Hz(c.f2), c.fs, c.k)
      [] c.fn = "adaptive_numtaps" -> adaptive_numtaps(c.f, c.fs, c.k)
      [] c.fn = "parametric_eq" -> parametric_eq(c.f, c.g, c.q, c.fs)
      [] c.fn = "shelving_lowshelf" -> shelving_lowshelf(c.f, c.g, c.fs, c.q)
      [] c.fn = "shelving_highshelf" -> shelving_highshelf(c.f, c.g, c.fs, c.q)

(***************************************************************************)
(* Host resolution of the launcher (src/app.py:38-50).                     *)
(*                                                                         *)
(* A Python string is the sequence of its characters, each a string of     *)
(* length one; an optional string is a record that tells None from a       *)
(* string.                                                                 *)
(***************************************************************************)
None == [is_none |-> TRUE, s |-> <<>>]
Str(s) == [is_none |-> FALSE, s |-> s]

UpperCase ==
    <<"A", "B", "C", "D", "E", "F", "G", "H", "I", "J", "K", "L", "M",
      "N", "O", "P", "Q", "R", "S", "T", "U", "V", "W", "X", "Y", "Z">>
LowerCase ==
    <<"a", "b", "c", "d", "e", "f", "g", "h", "i", "j", "k", "l", "m",
      "n", "o", "p", "q", "r", "s", "t", "u", "v", "w", "x", "y", "z">>
Whitespace == {" ", "\t", "\n"}

\* str.lower()
lower(s) ==
    [i \in 1..Len(s) |->
        IF \E j \in 1..Len(UpperCase) : UpperCase[j] = s[i]
        THEN LowerCase[CHOOSE j \in 1..Len(UpperCase) : UpperCase[j] = s[i]]
        ELSE s[i]]

RECURSIVE lstrip(_)
lstrip(s) ==
    IF s # <<>> /\ Head(s) \in Whitespace THEN lstrip(Tail(s)) ELSE s

RECURSIVE rstrip(_)
rstrip(s) ==
    IF s # <<>> /\ s[Len(s)] \in Whitespace
    THEN rstrip(SubSeq(s, 1, Len(s) - 1))
    ELSE s

\* A plausible slip: only the leading whitespace removed.
StripLeading(s) == lstrip(s)

\* str.strip()
strip(s) == rstrip(lstrip(s))

Loopback == <<"1", "2", "7", ".", "0", ".", "0", ".", "1">>
AnyAddress == <<"0", ".", "0", ".", "0", ".", "0">>
WordLocal == <<"l", "o", "c", "a", "l">>
WordLocalhost == <<"l", "o", "c", "a", "l", "h", "o", "s", "t">>
WordGlobal == <<"g", "l", "o", "b", "a", "l">>
WordPublic == <<"p", "u", "b", "l", "i", "c">>
WordAll == <<"a", "l", "l">>

_resolve_host(host_option) ==
    IF host_option.is_none \/ host_option.s = <<>> THEN Loopback
    ELSE LET option == lower(strip(host_option.s))
         IN  IF option \in {WordGlobal, WordPublic, WordAll, AnyAddress}
             THEN AnyAddress
             ELSE IF option \in {WordLocal, WordLocalhost, Loopback}
             THEN Loopback
             ELSE host_option.s

Unresolved == [status |-> "pending", value |-> <<>>]

(***************************************************************************)
(* run_app (src/app.py:53-90): the --host and --port options are taken    *)
(* out of the argument list, the environment fills in for an option that  *)
(* gave nothing, and sys.argv is rebuilt for streamlit.                   *)
(* A list of arguments is a sequence of strings; an environment variable  *)
(* is None when unset.                                                    *)
(***************************************************************************)
OptionHost == <<"-", "-", "h", "o", "s", "t">>
OptionPort == <<"-", "-", "p", "o", "r", "t">>
ServerAddress ==
    <<"-", "-", "s", "e", "r", "v", "e", "r", ".",
      "a", "d", "d", "r", "e", "s", "s">>
ServerPort ==
    <<"-", "-", "s", "e", "r", "v", "e", "r", ".", "p", "o", "r", "t">>
Streamlit == <<"s", "t", "r", "e", "a", "m", "l", "i", "t">>
Run == <<"r", "u", "n">>
\* __file__, the path of app.py.
File == <<"a", "p", "p", ".", "p", "y">>
One == <<"1">>

\* bool(value) of an Optional[str].
Truthy(value) == ~value.is_none /\ value.s # <<>>

\* a or b
Or(a, b) == IF Truthy(a) THEN a ELSE b

\* A plausible slip: the last occurrence.
LastIndex(l, e) ==
    CHOOSE i \in 1..Len(l) : l[i] = e /\ \A j \in (i + 1)..Len(l) : l[j] # e

\* list.index(e), for a list that holds e.
Index(l, e) ==
    CHOOSE i \in 1..Len(l) : l[i] = e /\ \A j \in 1..(i - 1) : l[j] # e

\* list.pop(i), with i counted from 1.
Pop(l, i) == SubSeq(l, 1, i - 1) \o SubSeq(l, i + 1, Len(l))

\* pop_opt: the value it returns and the list it leaves.
pop_opt(args, option) ==
    IF \A i \in 1..Len(args) : args[i] # option
    THEN [value |-> None, args |-> args]
    ELSE LET idx == Index(args, option)
             followed == idx + 1 <= Len(args)
             shorter == IF followed THEN Pop(args, idx + 1) ELSE args
         IN  [value |-> IF followed THEN Str(args[idx + 1]) ELSE None,
              args |-> Pop(shorter, idx)]

NotStarted == [status |-> "pending", value |-> <<>>]

NoEnvironment ==
    [STREAMLIT_HOST |-> None, STREAMLIT_PORT |-> None,
     STREAMLIT_RUNNING |-> None]

RunIdle ==
    /\ argv = <<>>
    /\ environ = NoEnvironment
    /\ sysArgv = NotStarted

MainIdle ==
    main = [x |-> <<>>, h |-> <<>>, stages |-> <<>>,
            designed |-> [h |-> <<>>, stages |-> <<>>],
            y |-> Pending, last |-> "none", applied |-> <<>>, calls |-> 0]

GuiIdle ==
    gui = [filter_type |-> "none", fs |-> 0]

AdsrIdle ==
    adsr = [n |-> 0, sr |-> 0, a |-> <<0, 1>>, d |-> <<0, 1>>, s |-> <<0, 1>>,
            r |-> <<0, 1>>, phase |-> "idle", i |-> 0, env |-> <<>>]

\* Nothing of the launcher, of main, of the GUI or of the generator has run.
AppIdle ==
    /\ hostOption = None
    /\ host = Unresolved
    /\ RunIdle
    /\ MainIdle
    /\ GuiIdle
    /\ AdsrIdle

(***************************************************************************)
(* apply_iir (src/main.py:49-51): np.asarray(sosfilt(sos, signal)).        *)
(*                                                                         *)
(* sosfilt rejects a cascade whose a0 column is not all ones and cannot    *)
(* reshape an empty one-dimensional signal; it then allocates the delay    *)
(* lines zi as zeros, copies the signal, and filters the copy in place:    *)
(* for each sample, each section in cascade order computes                 *)
(*     y = b0*x + z1;  z1 = b1*x - a1*y + z2;  z2 = b2*x - a2*y            *)
(* and hands y to the next section.                                        *)
(* A section is <<b0, b1, b2, a0, a1, a2>>.                                *)
(***************************************************************************)
Callers == {1, 2}

IirSamples == {0, 1}

Sections ==
    { <<1, 1, 0, 1, -1, 0>>,
      <<1, 0, -1, 1, 1, 1>>,
      <<1, 0, 0, 2, 0, 0>> }

Cascades == SeqsUpTo(Sections, MaxSections) \ {<<>>}

IirSignals == SeqsUpTo(IirSamples, MaxIirLen)

ZeroState(cascade) == [s \in 1..Len(cascade) |-> <<0, 0>>]

\* A plausible slip: only the first section's a0 looked at.
ValidSosFirst(cascade) == cascade[1][4] = 1

\* _validate_sos: sos[:, 3] must be all ones.
ValidSos(cascade) == \A s \in 1..Len(cascade) : cascade[s][4] = 1

\* A plausible slip: the feedback of a1 added instead of subtracted.
SectionStepPlus(sec, xn, z) ==
    LET yn == sec[1] * xn + z[1]
    IN  [out |-> yn,
         z |-> <<sec[2] * xn + sec[5] * yn + z[2], sec[3] * xn - sec[6] * yn>>]

\* One section on one sample (the body of _sosfilt's inner loop).
SectionStep(sec, xn, z) ==
    LET yn == sec[1] * xn + z[1]
    IN  [out |-> yn,
         z |-> <<sec[2] * xn - sec[5] * yn + z[2], sec[3] * xn - sec[6] * yn>>]

\* One sample through sections s..Len(cascade) (_sosfilt's inner loop).
RECURSIVE SampleStep(_, _, _, _)
SampleStep(cascade, s, xcur, zs) ==
    IF s > Len(cascade)
    THEN [out |-> xcur, z |-> zs]
    ELSE LET r == SectionStep(cascade[s], xcur, zs[s])
         IN  SampleStep(cascade, s + 1, r.out, [zs EXCEPT ![s] = r.z])

\* A plausible slip: the first section's delay line primed with one.
PrimedFirst(cascade, leftover) ==
    [s \in 1..Len(cascade) |-> IF s = 1 THEN <<1, 0>> ELSE <<0, 0>>]

\* A plausible slip: delay lines kept from the previous call.
KeptState(cascade, leftover) == leftover

\* The delay lines a call starts from: sosfilt is called without zi, so
\* they are zeros whatever an earlier call left behind.
FreshState(cascade, leftover) == ZeroState(cascade)

\* A plausible slip: one delay-line array shared by all calls.
SharedOwner(c) == 1

\* The delay lines a call works on: the array it allocated itself.
StateOwner(c) == c

\* sosfilt's sample loop from sample k on: the buffer it leaves.
RECURSIVE Sosfilt(_, _, _, _)
Sosfilt(cascade, samples, k, zs) ==
    IF k > Len(samples) THEN samples
    ELSE LET r == SampleStep(cascade, 1, samples[k], zs)
         IN  Sosfilt(cascade, [samples EXCEPT ![k] = r.out], k + 1, r.z)

\* One whole call apply_iir(sig, cascade): the returned array, or the error
\* raised (a cascade that is not n_sections by 6 with a0 = 1, or an empty
\* signal).
apply_iir(sig, cascade) ==
    IF Len(cascade) > 0 /\ ValidSos(cascade) /\ Len(sig) > 0
    THEN [status |-> "returned",
          value |-> Sosfilt(cascade, sig, 1, FreshState(cascade, <<>>))]
    ELSE [status |-> "ValueError", value |-> <<>>]

\* What a call leaves in the array passed as sos: _sosfilt only reads the
\* coefficients, so the array is as it was.
CascadeAfter(cascade) == cascade

IirIdle ==
    /\ sos = <<>>
    /\ pc = [c \in Callers |-> "idle"]
    /\ signal = [c \in Callers |-> <<>>]
    /\ pos = [c \in Callers |-> 0]
    /\ zi = [c \in Callers |-> <<>>]
    /\ buf = [c \in Callers |-> <<>>]
    /\ stale = [c \in Callers |-> FALSE]

IirInit ==
    /\ FirIdle
    /\ DesignIdle
    /\ AppIdle
    /\ sos \in Cascades
    /\ pc = [c \in Callers |-> "idle"]
    /\ signal = [c \in Callers |-> <<>>]
    /\ pos = [c \in Callers |-> 0]
    /\ zi = [c \in Callers |-> ZeroState(sos)]
    /\ buf = [c \in Callers |-> <<>>]
    /\ stale = [c \in Callers |-> FALSE]

\* The entry of apply_iir(sig, sos) up to the first sample.
Enter(c, sig, wasStale) ==
    /\ signal' = [signal EXCEPT ![c] = sig]
    /\ pos' = [pos EXCEPT ![c] = 0]
    /\ stale' = [stale EXCEPT ![c] = wasStale]
    /\ IF ValidSos(sos) /\ Len(sig) > 0
       THEN /\ pc' = [pc EXCEPT ![c] = "running"]
            /\ zi' = [zi EXCEPT ![StateOwner(c)] = FreshState(sos, zi[StateOwner(c)])]
            /\ buf' = [buf EXCEPT ![c] = sig]
       ELSE /\ pc' = [pc EXCEPT ![c] = "raised"]
            /\ buf' = [buf EXCEPT ![c] = <<>>]
            /\ UNCHANGED zi
    /\ UNCHANGED <<sos, firVars, designVars, appVars, main, gui, adsr>>

\* The first apply_iir call of a caller (src/main.py:130, 148).
Call(c, sig) ==
    /\ pc[c] = "idle"
    /\ Enter(c, sig, FALSE)

\* A later apply_iir call of the same caller (src/main.py:131-145, 149-150).
Recall(c, sig) ==
    /\ pc[c] \in {"returned", "raised"}
    /\ Enter(c, sig, zi[StateOwner(c)] # ZeroState(sos))

\* One iteration of _sosfilt's sample loop; the call returns after the last.
Step(c) ==
    /\ pc[c] = "running"
    /\ pos[c] < Len(buf[c])
    /\ LET r == SampleStep(sos, 1, buf[c][pos[c] + 1], zi[StateOwner(c)])
       IN  /\ buf' = [buf EXCEPT ![c][pos[c] + 1] = r.out]
           /\ zi' = [zi EXCEPT ![StateOwner(c)] = r.z]
    /\ pos' = [pos EXCEPT ![c] = pos[c] + 1]
    /\ pc' = [pc EXCEPT ![c] = IF pos[c] + 1 = Len(buf[c]) THEN "returned" ELSE "running"]
    /\ UNCHANGED <<sos, signal, stale, firVars, designVars, appVars, main, gui, adsr>>

\* A single-threaded program making one apply_iir call after another, as
\* main does.
Next ==
    \/ \E sig \in IirSignals : Call(1, sig)
    \/ \E sig \in IirSignals : Recall(1, sig)
    \/ Step(1)

Spec == IirInit /\ [][Next]_vars

\* Two apply_iir calls on the same cascade whose sample loops interleave.
ConcNext ==
    \/ \E c \in Callers, sig \in IirSignals : Call(c, sig)
    \/ \E c \in Callers : Step(c)

ConcSpec == IirInit /\ [][ConcNext]_vars

DesignInit ==
    /\ FirIdle
    /\ IirIdle
    /\ AppIdle
    /\ call \in DesignCalls
    /\ design = NoDesign

\* One designer call, as in main (src/main.py:85-114).
Design ==
    /\ design.status = "none"
    /\ design' = Designed(call)
    /\ UNCHANGED <<call, firVars, iirVars, appVars, main, gui, adsr>>

DesignNext == Design

DesignSpec == DesignInit /\ [][DesignNext]_vars

FirInit ==
    /\ IirIdle
    /\ DesignIdle
    /\ AppIdle
    /\ firSignal \in SeqsUpTo(Samples, MaxSigLen)
    /\ firTaps \in SeqsUpTo(Samples, MaxTaps)
    /\ firOut = Pending

\* One call y = apply_fir(x, h), as in main (src/main.py:123-126).
ApplyFir ==
    /\ firOut.status = "pending"
    /\ firOut' = apply_fir(firSignal, firTaps)
    /\ UNCHANGED <<firSignal, firTaps, iirVars, designVars, appVars, main, gui, adsr>>

FirNext == ApplyFir

FirSpec == FirInit /\ [][FirNext]_vars

(***************************************************************************)
(* The apply phase of main (src/main.py:123-150): the designed kernel and  *)
(* cascades are applied to the signal x, each call a whole apply_fir or    *)
(* apply_iir; the "mastered" chain feeds the output of one apply_iir call  *)
(* to the next.  main.designed keeps what the designers returned,          *)
(* main.last and main.applied say which calls produced the buffer main.y,  *)
(* main.calls counts the apply calls made.                                 *)
(***************************************************************************)
Kernels == {<<1>>, <<1, -1>>, <<1, 0, -1>>, <<-1, 1, 0, 1>>}

MainSignals == SeqsUpTo(IirSamples, MaxMainLen)

\* Two cascades: every way of cutting a cascade in two.
StagePairs ==
    UNION {{<<SubSeq(c, 1, k), SubSeq(c, k + 1, Len(c))>> :
               k \in 1..(Len(c) - 1)} :
           c \in SeqsUpTo(Sections, MaxChainSections)}

MainInit ==
    /\ FirIdle
    /\ IirIdle
    /\ DesignIdle
    /\ hostOption = None
    /\ host = Unresolved
    /\ RunIdle
    /\ GuiIdle
    /\ AdsrIdle
    /\ \E sig \in MainSignals, taps \in Kernels, pair \in StagePairs :
           main = [x |-> sig, h |-> taps, stages |-> pair,
                   designed |-> [h |-> taps, stages |-> pair],
                   y |-> Pending, last |-> "none", applied |-> <<>>, calls |-> 0]

NotMain == <<firVars, iirVars, designVars, appVars, gui, adsr>>

\* y = apply_fir(x, h) (src/main.py:123-126).
MainApplyFir ==
    /\ main.y.status # "ValueError"
    /\ main.calls < MaxCalls
    /\ main' = [main EXCEPT !.y = apply_fir(main.x, main.h),
                            !.h = KernelAfter(main.h),
                            !.last = "fir",
                            !.applied = <<>>,
                            !.calls = main.calls + 1]
    /\ UNCHANGED NotMain

\* y = apply_iir(x, sos) (src/main.py:130-145, 148).
MainApplyIir(k) ==
    /\ main.y.status # "ValueError"
    /\ main.calls < MaxCalls
    /\ main' = [main EXCEPT !.y = apply_iir(main.x, main.stages[k]),
                            !.stages[k] = CascadeAfter(main.stages[k]),
                            !.last = "iir",
                            !.applied = <<k>>,
                            !.calls = main.calls + 1]
    /\ UNCHANGED NotMain

\* y = apply_iir(y, sos), the next stage of a chain (src/main.py:149-150).
MainChain(k) ==
    /\ main.y.status = "returned"
    /\ main.last = "iir"
    /\ main.calls < MaxCalls
    /\ main' = [main EXCEPT !.y = apply_iir(main.y.value, main.stages[k]),
                            !.stages[k] = CascadeAfter(main.stages[k]),
                            !.applied = Append(main.applied, k),
                            !.calls = main.calls + 1]
    /\ UNCHANGED NotMain

MainNext ==
    \/ MainApplyFir
    \/ \E k \in DOMAIN main.stages : MainApplyIir(k)
    \/ \E k \in DOMAIN main.stages : MainChain(k)

MainSpec == MainInit /\ [][MainNext]_vars

\* str.upper(), to build the arguments.
upper(s) ==
    [i \in 1..Len(s) |->
        IF \E j \in 1..Len(LowerCase) : LowerCase[j] = s[i]
        THEN UpperCase[CHOOSE j \in 1..Len(LowerCase) : LowerCase[j] = s[i]]
        ELSE s[i]]

\* str.capitalize() of a lower-case string.
capitalize(s) == IF s = <<>> THEN s ELSE upper(<<Head(s)>>) \o Tail(s)

\* The words tried as --host or STREAMLIT_HOST: the aliases, and names and
\* addresses that are no alias.
HostWords ==
    {WordGlobal, WordPublic, WordAll, AnyAddress, WordLocal, WordLocalhost,
     Loopback, <<>>, <<"h", "o", "s", "t">>, <<"l", "o", "c", "a", "l", "s">>,
     <<"a", " ", "l", "l">>, <<"1", "0", ".", "0", ".", "0", ".", "5">>}

HostOptions ==
    {None} \cup
    {Str(l \o c \o r) :
        l \in SeqsUpTo(Whitespace, MaxPad), r \in SeqsUpTo(Whitespace, MaxPad),
        c \in HostWords \cup {upper(w) : w \in HostWords}
                \cup {capitalize(w) : w \in HostWords}}

HostInit ==
    /\ FirIdle
    /\ IirIdle
    /\ DesignIdle
    /\ hostOption \in HostOptions
    /\ host = Unresolved
    /\ RunIdle
    /\ MainIdle
    /\ GuiIdle
    /\ AdsrIdle

\* host = _resolve_host(host_value), as in run_app (src/app.py:80).
ResolveHost ==
    /\ host.status = "pending"
    /\ host' = [status |-> "returned", value |-> _resolve_host(hostOption)]
    /\ UNCHANGED <<hostOption, argv, environ, sysArgv,
                   firVars, iirVars, designVars, main, gui, adsr>>

HostNext == ResolveHost

HostSpec == HostInit /\ [][HostNext]_vars

\* The arguments tried: the two options, values for them (an alias, a port,
\* the empty string) and an argument meant for streamlit.
PortNumber == <<"8", "5", "0", "1">>
EnvPortNumber == <<"9", "0", "0", "0">>
PassedThrough == <<"-", "-", "x">>
ArgWords ==
    {OptionHost, OptionPort, WordGlobal, PortNumber, <<>>, PassedThrough}
ArgLists == SeqsUpTo(ArgWords, MaxArgs)

Environments ==
    [STREAMLIT_HOST : {None, Str(<<>>), Str(WordLocalhost)},
     STREAMLIT_PORT : {None, Str(<<>>), Str(EnvPortNumber)},
     STREAMLIT_RUNNING : {None}]

RunInit ==
    /\ FirIdle
    /\ IirIdle
    /\ DesignIdle
    /\ hostOption = None
    /\ host = Unresolved
    /\ argv \in ArgLists
    /\ environ \in Environments
    /\ sysArgv = NotStarted
    /\ MainIdle
    /\ GuiIdle
    /\ AdsrIdle

\* run_app(argv), up to the call of streamlit's entry point.
RunApp ==
    /\ sysArgv.status = "pending"
    /\ LET hostPop == pop_opt(argv, OptionHost)
           host_value == Or(hostPop.value, environ.STREAMLIT_HOST)
           portPop == pop_opt(hostPop.args, OptionPort)
           port_value == Or(portPop.value, environ.STREAMLIT_PORT)
           resolved == _resolve_host(host_value)
       IN  /\ hostOption' = host_value
           /\ host' = [status |-> "returned", value |-> resolved]
           /\ environ' = [environ EXCEPT !.STREAMLIT_RUNNING = Str(One)]
           /\ sysArgv' =
                  [status |-> "set",
                   value |->
                       <<Streamlit, Run, File, ServerAddress, resolved>>
                       \o (IF Truthy(port_value)
                           THEN <<ServerPort, port_value.s>>
                           ELSE <<>>)
                       \o portPop.args]
    /\ UNCHANGED <<argv, firVars, iirVars, designVars, main, gui, adsr>>

RunNext == RunApp

RunSpec == RunInit /\ [][RunNext]_vars

(***************************************************************************)
(* The filter parameters of the GUI (src/app.py:150-238): for the filter   *)
(* type selected and the sample rate fs of the uploaded file, app_main     *)
(* reads the sliders and calls the designer with their positions.          *)
(*                                                                         *)
(* st.slider(label, min_value, max_value, value, step) raises when the     *)
(* initial value is outside [min_value, max_value]; otherwise the user can *)
(* put it on min_value, min_value + step, ... up to max_value.  The        *)
(* positions tried are the two ends and the initial value, but for the     *)
(* gain slider, tried at its ends, and the FIR order slider.               *)
(***************************************************************************)
FilterTypes ==
    {"FIR Bandstop", "FIR Lowpass", "FIR Highpass",
     "IIR Bandstop (Butterworth)", "IIR Lowpass", "IIR Highpass",
     "60Hz Notch Filter", "Parametric EQ", "Low Shelf", "High Shelf"}

\* The sample rates of the files uploaded.
FileRates == {100, 8000, 44100}

SliderRaises(min_value, max_value, value) ==
    value < min_value \/ value > max_value

Slider(min_value, max_value, value, step) ==
    {min_value, value,
     min_value + ((max_value - min_value) \div step) * step}

\* No designer is called: a slider raised.
NoCall ==
    [fn |-> "none", f |-> 0, f2 |-> 0, fs |-> 0, k |-> 0, g |-> 0,
     q |-> <<0, 1>>]

\* The "FIR Order" slider (33 to 513 in steps of 16, initially 129) at its
\* lowest position and at its initial value; the time axis of longer
\* kernels is beyond the range of the fixed-point numbers.
FirOrders == {33, 129}

\* The "Filter Order" slider.
IirOrders == Slider(2, 10, 6, 1)

\* The "Gain (dB)" slider at its ends.
GuiGains == {-12, 12}

\* The "Q Factor" slider.
GuiQFactors == {<<1, 2>>, <<2, 1>>, <<10, 1>>}

\* The default q_factor of the shelving designers.
ShelfQ == <<707, 1000>>

\* The two stopband sliders and the order slider of a bandstop filter.
GuiBandstop(fn, fs, orders) ==
    IF SliderRaises(20, fs \div 2 - 100, 900) THEN {NoCall}
    ELSE UNION
        {IF SliderRaises(f1 + 10, fs \div 2, 1100) THEN {NoCall}
         ELSE Calls({fn}, {f1}, Slider(f1 + 10, fs \div 2, 1100, 10), {fs},
                    orders, {0}, {<<0, 1>>}) :
         f1 \in Slider(20, fs \div 2 - 100, 900, 10)}

\* The cutoff slider and the order slider of a lowpass or highpass filter.
GuiCutoff(fn, fs, value, orders) ==
    IF SliderRaises(20, fs \div 2 - 100, value) THEN {NoCall}
    ELSE Calls({fn}, Slider(20, fs \div 2 - 100, value, 10), {0}, {fs},
               orders, {0}, {<<0, 1>>})

\* The designer calls the sliders of a filter type allow.
GuiCalls(filter_type, fs) ==
    CASE filter_type = "FIR Bandstop" -> GuiBandstop("fir_bandstop", fs, FirOrders)
      [] filter_type = "FIR Lowpass" -> GuiCutoff("fir_lowpass", fs, 1000, FirOrders)
      [] filter_type = "FIR Highpass" -> GuiCutoff("fir_highpass", fs, 200, FirOrders)
      [] filter_type = "IIR Bandstop (Butterworth)" ->
             GuiBandstop("butter_bandstop", fs, IirOrders)
      [] filter_type = "IIR Lowpass" -> GuiCutoff("butter_lowpass", fs, 1000, IirOrders)
      [] filter_type = "IIR Highpass" -> GuiCutoff("butter_highpass", fs, 200, IirOrders)
      [] filter_type = "60Hz Notch Filter" ->
             Calls({"butter_notch"}, Slider(50, 70, 60, 1), Slider(2, 20, 10, 1),
                   {fs}, {4}, {0}, {<<0, 1>>})
      [] filter_type = "Parametric EQ" ->
             Calls({"parametric_eq"}, Slider(100, 10000, 1000, 10), {0}, {fs},
                   {0}, GuiGains, GuiQFactors)
      [] filter_type = "Low Shelf" ->
             Calls({"shelving_lowshelf"}, Slider(50, 2000, 200, 10), {0}, {fs},
                   {0}, GuiGains, {ShelfQ})
      [] filter_type = "High Shelf" ->
             Calls({"shelving_highshelf"}, Slider(1000, 10000, 5000, 10), {0},
                   {fs}, {0}, GuiGains, {ShelfQ})

GuiInit ==
    /\ FirIdle
    /\ IirIdle
    /\ DesignIdle
    /\ hostOption = None
    /\ host = Unresolved
    /\ RunIdle
    /\ MainIdle
    /\ AdsrIdle
    /\ gui \in [filter_type : FilterTypes, fs : FileRates]

\* One run of the script with the sliders in some position: the designer
\* is called with the positions, or a slider raises and none is called.
Rerun ==
    /\ \E c \in GuiCalls(gui.filter_type, gui.fs) :
           /\ call' = c
           /\ design' = IF c = NoCall
                         THEN Raised("StreamlitAPIException", "slider")
                         ELSE Designed(c)
    /\ UNCHANGED <<gui, firVars, iirVars, appVars, main, adsr>>

GuiNext == Rerun

GuiSpec == GuiInit /\ [][GuiNext]_vars

(***************************************************************************)
(* adsr_envelope (src/src/generate.py:59-80): env = [0.0] * n is filled by *)
(* four loops, attack, decay, sustain and release, one list element per    *)
(* iteration.  The times a, d, r and the level s are fractions             *)
(* <<numerator, denominator>>, and so are the elements of env; adsr.i is   *)
(* the loop variable of the loop adsr.phase.  Writing env[k] for k >= n    *)
(* raises IndexError (the indices are never negative).                     *)
(***************************************************************************)
\* max(1, int(t * sr)) for a time t >= 0.
Count(t, sr) ==
    LET samples == (t[1] * sr) \div t[2]
    IN  IF samples > 1 THEN samples ELSE 1

a_n == Count(adsr.a, adsr.sr)
d_n == Count(adsr.d, adsr.sr)
r_n == Count(adsr.r, adsr.sr)

\* max(0, n - (a_n + d_n + r_n))
sustain_n ==
    LET rest == adsr.n - (a_n + d_n + r_n)
    IN  IF rest > 0 THEN rest ELSE 0

\* env[k] = value, k counted from 0: the list and whether it raised.
SetItem(env, k, value) ==
    IF k < Len(env)
    THEN [raised |-> FALSE, env |-> [env EXCEPT ![k + 1] = value]]
    ELSE [raised |-> TRUE, env |-> env]

Times == {<<0, 1>>, <<1, 2>>, <<1, 1>>}
Levels == {<<3, 5>>}
Rates == {2, 4}

AdsrInit ==
    /\ FirIdle
    /\ IirIdle
    /\ DesignIdle
    /\ hostOption = None
    /\ host = Unresolved
    /\ RunIdle
    /\ MainIdle
    /\ GuiIdle
    /\ \E n \in 0..MaxEnv, sr \in Rates, a \in Times, d \in Times,
          s \in Levels, r \in Times :
           adsr = [n |-> n, sr |-> sr, a |-> a, d |-> d, s |-> s, r |-> r,
                   phase |-> "attack", i |-> 0,
                   env |-> [j \in 1..n |-> <<0, 1>>]]

\* The loop variable after an iteration: the next iteration of the loop,
\* or the first of the loop that follows.
Advance(phase, count, following) ==
    IF adsr.i + 1 < count
    THEN [phase |-> phase, i |-> adsr.i + 1]
    ELSE [phase |-> following, i |-> 0]

\* One iteration of a loop that stores value at index k.
Store(k, value, next) ==
    LET w == SetItem(adsr.env, k, value)
    IN  /\ adsr' = IF w.raised
                   THEN [adsr EXCEPT !.phase = "IndexError"]
                   ELSE [adsr EXCEPT !.env = w.env, !.phase = next.phase,
                                     !.i = next.i]
        /\ UNCHANGED <<firVars, iirVars, designVars, appVars, main, gui>>

\* env[i] = i / a_n
Attack ==
    /\ adsr.phase = "attack"
    /\ Store(adsr.i, <<adsr.i, a_n>>, Advance("attack", a_n, "decay"))

\* env[a_n + i] = 1.0 - (1.0 - s) * (i / d_n)
Decay ==
    /\ adsr.phase = "decay"
    /\ Store(a_n + adsr.i,
             <<adsr.s[2] * d_n - (adsr.s[2] - adsr.s[1]) * adsr.i,
               adsr.s[2] * d_n>>,
             Advance("decay", d_n,
                     IF sustain_n > 0 THEN "sustain" ELSE "release"))

\* env[a_n + d_n + i] = s
Sustain ==
    /\ adsr.phase = "sustain"
    /\ Store(a_n + d_n + adsr.i, adsr.s,
             Advance("sustain", sustain_n, "release"))

\* idx = a_n + d_n + sustain_n + i; if idx < n: env[idx] = s * (1.0 - i / r_n);
\* after the last iteration env is returned.
Release ==
    /\ adsr.phase = "release"
    /\ LET idx == a_n + d_n + sustain_n + adsr.i
           next == Advance("release", r_n, "returned")
       IN  IF idx < adsr.n
           THEN Store(idx, <<adsr.s[1] * (r_n - adsr.i), adsr.s[2] * r_n>>,
                      next)
           ELSE /\ adsr' = [adsr EXCEPT !.phase = next.phase, !.i = next.i]
                /\ UNCHANGED <<firVars, iirVars, designVars, appVars, main,
                               gui>>

AdsrNext ==
    \/ Attack
    \/ Decay
    \/ Sustain
    \/ Release

AdsrSpec == AdsrInit /\ [][AdsrNext]_vars

(***************************************************************************)
(* Claims about apply_fir.                                                 *)
(***************************************************************************)
FirReturned == firOut.status = "returned"

\* The centred convolution with a delay of d samples, x taken as 0 outside
\* its index range: out[n] = sum_j h[j] * x[n + d - j] (0-based).
CenteredConvolution(x, h, d) ==
    [i \in 1..Len(x) |->
        Sum([j \in 1..Len(h) |->
                LET k == i + d - j + 1
                IN  IF k \in 1..Len(x) THEN h[j] * x[k] ELSE 0],
            1, Len(h))]

\* C1: whenever apply_fir returns a sequence, for every signal and every
\* kernel (also a kernel longer than the signal), the length of the
\* sequence is len(signal).
C1_OutputLengthIsSignalLength ==
    FirReturned => Len(firOut.value) = Len(firSignal)

\* C2 as claimed: for every kernel of length L, odd or even, and every
\* signal with len(x) >= L, the output is the centred convolution with
\* delay floor(L/2).
C2_DelayIsFloorHalfLength ==
    (FirReturned /\ Len(firSignal) >= Len(firTaps))
        => firOut.value = CenteredConvolution(firSignal, firTaps, Len(firTaps) \div 2)

\* C2 as amended: for every kernel of length L >= 1 and every signal with
\* len(x) >= L, the output is the centred convolution with delay
\* floor((L-1)/2), which is floor(L/2) exactly when L is odd.
C2_DelayIsFloorHalfLengthMinusOne ==
    (FirReturned /\ Len(firSignal) >= Len(firTaps))
        => firOut.value =
              CenteredConvolution(firSignal, firTaps, (Len(firTaps) - 1) \div 2)

\* An even kernel has been applied to a signal at least as long, and the
\* two delays give different outputs.
C2_Witness ==
    /\ FirReturned
    /\ Len(firTaps) = 2
    /\ Len(firSignal) >= Len(firTaps)
    /\ firOut.value = CenteredConvolution(firSignal, firTaps, 0)
    /\ firOut.value # CenteredConvolution(firSignal, firTaps, 1)

\* The buffer of length n holding 1 at 0-based index floor(n/2), 0 elsewhere.
Impulse(n) == [i \in 1..n |-> IF i = (n \div 2) + 1 THEN 1 ELSE 0]

\* C3: for every kernel of odd length, apply_fir of the unit impulse of the
\* same length, placed at index floor(numtaps/2), is the kernel itself.
C3_ImpulseReproducesKernel ==
    (FirReturned /\ Len(firTaps) % 2 = 1 /\ firSignal = Impulse(Len(firTaps)))
        => firOut.value = firTaps

\* An asymmetric three-tap kernel has been applied to its impulse.
C3_Witness ==
    /\ FirReturned
    /\ Len(firTaps) = 3
    /\ firTaps[1] # firTaps[3]
    /\ firSignal = Impulse(3)
    /\ firOut.value = firTaps

(***************************************************************************)
(* Claims about apply_iir.                                                 *)
(***************************************************************************)
\* The first k outputs of one section by its difference equation
\*   y[n] = b0*x[n] + b1*x[n-1] + b2*x[n-2] - a1*y[n-1] - a2*y[n-2]
\* from zero initial conditions.
RECURSIVE SectionResponse(_, _, _)
SectionResponse(sec, xs, k) ==
    IF k = 0 THEN <<>>
    ELSE LET prev == SectionResponse(sec, xs, k - 1)
             X(i) == IF i >= 1 THEN xs[i] ELSE 0
             Y(i) == IF i >= 1 THEN prev[i] ELSE 0
         IN  Append(prev, sec[1] * X(k) + sec[2] * X(k - 1) + sec[3] * X(k - 2)
                          - sec[5] * Y(k - 1) - sec[6] * Y(k - 2))

\* Sections s..Len(cascade) run one after the other over the whole signal,
\* each section's output being the next section's input.
RECURSIVE CascadeResponse(_, _, _)
CascadeResponse(cascade, s, xs) ==
    IF s > Len(cascade) THEN xs
    ELSE CascadeResponse(cascade, s + 1, SectionResponse(cascade[s], xs, Len(xs)))

\* What a call on sig holds after k samples when it is the only call ever
\* made: its buffer and its delay lines, started from zeros.
RECURSIVE Alone(_, _, _)
Alone(cascade, sig, k) ==
    IF k = 0 THEN [buf |-> sig, z |-> ZeroState(cascade)]
    ELSE LET p == Alone(cascade, sig, k - 1)
             r == SampleStep(cascade, 1, sig[k], p.z)
         IN  [buf |-> [p.buf EXCEPT ![k] = r.out], z |-> r.z]

AllZero(xs) == \A i \in 1..Len(xs) : xs[i] = 0

\* C4: what apply_iir returns is the signal run through the sections in
\* cascade order, each by its difference equation from zero initial
\* conditions, and it has the length of the input.
C4_CascadeOfDifferenceEquations ==
    \A c \in Callers :
        pc[c] = "returned"
            => /\ buf[c] = CascadeResponse(sos, 1, signal[c])
               /\ Len(buf[c]) = Len(signal[c])

\* A call through two different sections has returned a three-sample
\* output that is not the input.
C4_Witness ==
    /\ pc[1] = "returned"
    /\ Len(sos) = 2
    /\ sos[1] # sos[2]
    /\ Len(signal[1]) = 3
    /\ buf[1] # signal[1]
    /\ buf[1] = CascadeResponse(sos, 1, signal[1])

\* C5: for every cascade with a0 = 1 in each section and every N >= 0,
\* apply_iir of the all-zero buffer of length N returns the all-zero buffer
\* of length N.
C5_ZeroInZeroOut ==
    \A c \in Callers :
        (pc[c] \in {"returned", "raised"} /\ ValidSos(sos) /\ AllZero(signal[c]))
            => (pc[c] = "returned" /\ buf[c] = signal[c])

\* C6: a call starts every section's delay line at zero whatever earlier
\* calls left behind, and it ends as the first-ever call on the same
\* signal and cascade ends: with the same output or the same error.
C6_NoMemoryBetweenCalls ==
    \A c \in Callers :
        /\ (pc[c] = "running" /\ pos[c] = 0) => zi[StateOwner(c)] = ZeroState(sos)
        /\ pc[c] = "returned"
              => (ValidSos(sos) /\ signal[c] # <<>>
                  /\ buf[c] = Alone(sos, signal[c], Len(signal[c])).buf)
        /\ pc[c] = "raised" => (~ValidSos(sos) \/ signal[c] = <<>>)

\* A call that began over the non-zero delay lines of an earlier call has
\* returned a filtered output.
C6_Witness ==
    /\ pc[1] = "returned"
    /\ stale[1]
    /\ buf[1] # signal[1]
    /\ buf[1] = Alone(sos, signal[1], Len(signal[1])).buf

\* C7: under every interleaving of the sample steps of two calls on the
\* same cascade, each call's buffer and delay lines are, after each of its
\* steps, those of the same call running alone.
C7_ConcurrentCallsIndependent ==
    \A c \in Callers :
        pc[c] \in {"running", "returned"}
            => LET a == Alone(sos, signal[c], pos[c])
               IN  buf[c] = a.buf /\ zi[StateOwner(c)] = a.z

\* Both calls are in the middle of different signals, each with non-zero
\* delay lines of its own.
C7_Witness ==
    /\ pc[1] = "running" /\ pc[2] = "running"
    /\ pos[1] >= 1 /\ pos[2] >= 1
    /\ signal[1] # signal[2]
    /\ zi[1] # zi[2]
    /\ zi[1] # ZeroState(sos) /\ zi[2] # ZeroState(sos)
    /\ Len(sos) = 2

(***************************************************************************)
(* Claims about the designers.                                             *)
(***************************************************************************)
Designing(fns) == call.fn \in fns /\ design.status # "none"

\* C8: adaptive_numtaps returns an odd integer: with n the Kaiser estimate,
\* n when n is odd and n + 1 when n is even.
C8_AdaptiveNumtapsOdd ==
    (Designing({"adaptive_numtaps"}) /\ design.status = "returned")
        => LET est == Kaiserord(call.k, Normalized(call.f, call.fs)).size
           IN  /\ design.size % 2 = 1
               /\ design.size = (IF est % 2 = 1 THEN est ELSE est + 1)

\* A positive transition width whose Kaiser estimate is even has been
\* rounded up.
C8_Witness ==
    /\ Designing({"adaptive_numtaps"})
    /\ design.status = "returned"
    /\ call.f > 0
    /\ Kaiserord(call.k, Normalized(call.f, call.fs)).size % 2 = 0
    /\ design.size = Kaiserord(call.k, Normalized(call.f, call.fs)).size + 1

\* C9: adaptive_numtaps called with transition_width <= 0 fails and never
\* returns a tap count.
C9_NonPositiveWidthFails ==
    (Designing({"adaptive_numtaps"}) /\ call.f <= 0)
        => design.status # "returned"

CutoffInside == call.f > 0 /\ 2 * call.f < call.fs

\* C10 as claimed: for every FIR and IIR lowpass/highpass designer (given a
\* tap count or order of at least 1), a cutoff <= 0 or >= fs/2 fails with
\* ValueError and every cutoff strictly inside (0, fs/2) returns a kernel
\* or cascade.
C10_CutoffDecidesOutcome ==
    (Designing(FirLowHigh \cup IirLow \cup IirHigh) /\ call.k >= 1)
        => IF CutoffInside THEN design.status = "returned"
                           ELSE design.status = "ValueError"

\* C10 as amended: the same, except that FIR highpass with an even numtaps
\* fails with ValueError whatever the cutoff.
C10_CutoffDecidesOutcomeButEvenHighpass ==
    (Designing(FirLowHigh \cup IirLow \cup IirHigh) /\ call.k >= 1)
        => IF CutoffInside /\ ~(call.fn = "fir_highpass" /\ call.k % 2 = 0)
           THEN /\ design.status = "returned"
                /\ design.kind = (IF call.fn \in FirLowHigh THEN "taps" ELSE "sos")
           ELSE design.status = "ValueError"

\* A highpass kernel has been returned for the largest cutoff below
\* Nyquist (fs odd, cutoff = (fs - 1) / 2).
C10_Witness ==
    /\ Designing({"fir_highpass"})
    /\ 2 * call.f = call.fs - 1
    /\ design.status = "returned"
    /\ design.kind = "taps"

BandEdgesDisordered ==
    IF call.fn \in {"fir_notch", "butter_notch"} THEN call.f2 <= 0
    ELSE call.f >= call.f2

\* C11: every band designer (bandpass, bandstop, notch; FIR and IIR) called
\* with f_low >= f_high (a notch: with bandwidth <= 0) fails with a
\* ValueError that the designer itself raises, not one that comes out of
\* the synthesis routine it calls.
C11_DisorderedBandRejectedByDesigner ==
    (Designing(FirBand \cup IirBand) /\ BandEdgesDisordered)
        => /\ design.status = "ValueError"
           /\ design.origin = call.fn

IirAll == IirLow \cup IirHigh \cup IirBand

\* C12: every IIR designer called with order <= 0 (order = 0 included)
\* fails and returns no cascade.
C12_NonPositiveOrderFails ==
    (Designing(IirAll) /\ call.k <= 0) => design.status # "returned"

\* C13: parametric_eq, shelving_lowshelf and shelving_highshelf fail for
\* every q_factor <= 0, zero and negative alike: no coefficients are
\* returned.
C13_NonPositiveQFails ==
    (Designing(Equalizers) /\ call.q[1] <= 0) => design.status # "returned"

\* C14: for gain_db = 0 and every frequency inside (0, fs/2) and every
\* q_factor > 0, each of the three equalizer designers returns one section
\* whose stored numerator (b0, b1, b2) equals its stored denominator
\* (1, a1, a2).
C14_ZeroGainIsIdentity ==
    (Designing(Equalizers) /\ call.g = 0 /\ CutoffInside /\ call.q[1] > 0)
        => /\ design.status = "returned"
           /\ Len(design.val) = 1
           /\ LET s == design.val[1]
              IN  /\ <<s[1], s[2], s[3]>> = <<s[4], s[5], s[6]>>
                  /\ s[4] = Resolution

\* A shelving section of zero gain whose coefficients are not trivial.
C14_Witness ==
    /\ Designing({"shelving_lowshelf", "shelving_highshelf"})
    /\ call.g = 0 /\ CutoffInside /\ call.q[1] > 0
    /\ design.status = "returned"
    /\ design.val[1][2] # 0
    /\ design.val[1][3] \notin {0, Resolution}
    /\ design.val[1][3] = design.val[1][6]

\* C15: parametric_eq returns (for every q_factor > 0 and frequency inside
\* (0, fs/2), and whenever it returns at all) exactly one section of six
\* coefficients (b0/a0, b1/a0, b2/a0, 1, a1/a0, a2/a0) with
\* b0 = 1 + alpha A, b1 = -2 cos(w0), b2 = 1 - alpha A, a0 = 1 + alpha / A,
\* a1 = -2 cos(w0), a2 = 1 - alpha / A; the fourth stored coefficient is
\* exactly 1 and the stored b1 equals the stored a1.
C15_PeakingSection ==
    (/\ Designing({"parametric_eq"})
     /\ (design.status = "returned" \/ (call.q[1] > 0 /\ CutoffInside)))
        => /\ design.status = "returned"
           /\ design.kind = "sos" /\ design.size = 1
           /\ Len(design.val) = 1 /\ Len(design.val[1]) = 6
           /\ design.val[1][4] = Resolution
           /\ design.val[1][2] = design.val[1][5]
           /\ LET A == Amplitude(call.g)
                  w0 == Fx(2 * call.f, call.fs)
                  alpha == FxDiv(SinPi(w0), 2 * Fx(call.q[1], call.q[2]))
                  b0 == Resolution + FxMul(alpha, A)
                  b1 == -2 * CosPi(w0)
                  b2 == Resolution - FxMul(alpha, A)
                  a0 == Resolution + FxDiv(alpha, A)
                  a1 == -2 * CosPi(w0)
                  a2 == Resolution - FxDiv(alpha, A)
              IN  design.val[1] = <<FxDiv(b0, a0), FxDiv(b1, a0), FxDiv(b2, a0),
                                    Resolution, FxDiv(a1, a0), FxDiv(a2, a0)>>

\* A boosting section with a non-zero b1 and a0 # 1.
C15_Witness ==
    /\ Designing({"parametric_eq"})
    /\ call.g > 0 /\ CutoffInside /\ call.q[1] > 0
    /\ design.status = "returned"
    /\ design.val[1][2] # 0
    /\ design.val[1][1] > Resolution
    /\ design.val[1][2] = design.val[1][5]

\* C16: for every even order N >= 2 (and a cutoff inside (0, fs/2)),
\* butter_lowpass returns exactly N / 2 sections, none of them first-order;
\* butter_lowpass(1000, 44100, order=4) has exactly 2 sections.
C16_EvenOrderHalfAsManySections ==
    (/\ Designing({"butter_lowpass"})
     /\ call.k >= 2 /\ call.k % 2 = 0 /\ CutoffInside)
        => /\ design.status = "returned"
           /\ design.kind = "sos"
           /\ 2 * design.size = call.k
           /\ design.val.first_order = 0
           /\ (call.f = 1000 /\ call.fs = 44100 /\ call.k = 4) => design.size = 2

\* butter_lowpass(1000, 44100, order=4) has returned 2 sections.
C16_Witness ==
    /\ Designing({"butter_lowpass"})
    /\ call.f = 1000 /\ call.fs = 44100 /\ call.k = 4
    /\ design.status = "returned"
    /\ design.size = 2

\* C17: the notch designers are the bandstop designers on the symmetric
\* band: notch(center, bandwidth, fs, numtaps) is
\* bandstop(center - bandwidth/2, center + bandwidth/2, fs, numtaps) and
\* butter_notch(center, bandwidth, fs, order) is
\* butter_bandstop(center - bandwidth/2, center + bandwidth/2, fs, order),
\* the same kernel or cascade when one is returned and the same failure
\* otherwise.
C17_NotchIsSymmetricBandstop ==
    LET f_low == Reduced(2 * call.f - call.f2, 2)
        f_high == Reduced(2 * call.f + call.f2, 2)
    IN  /\ Designing({"fir_notch"})
               => design = bandstop(f_low, f_high, call.fs, call.k)
        /\ Designing({"butter_notch"})
               => design = butter_bandstop(f_low, f_high, call.fs, call.k)

\* A notch kernel has been returned for an odd bandwidth, whose band edges
\* are no whole numbers of Hz.
C17_Witness ==
    /\ Designing({"fir_notch"})
    /\ call.f2 % 2 = 1
    /\ design.status = "returned"
    /\ design.kind = "taps"
    /\ \E i \in 1..(call.k \div 2) : design.val[i] # 0

\* C18: every FIR lowpass kernel with an odd numtaps is symmetric:
\* taps[i] = taps[numtaps - 1 - i] for every i in 0..numtaps-1.
C18_OddLowpassSymmetric ==
    (Designing({"fir_lowpass"}) /\ design.status = "returned" /\ call.k % 2 = 1)
        => /\ Len(design.val) = call.k
           /\ \A i \in 0..(call.k - 1) :
                  design.val[i + 1] = design.val[(call.k - 1 - i) + 1]

\* An odd lowpass kernel with a non-zero tap off its center, equal to its
\* mirror image and different from the center tap.
C18_Witness ==
    /\ Designing({"fir_lowpass"})
    /\ design.status = "returned"
    /\ call.k % 2 = 1
    /\ \E i \in 1..(call.k \div 2) :
           /\ design.val[i] # 0
           /\ design.val[i] = design.val[call.k + 1 - i]
           /\ design.val[i] # design.val[call.k \div 2 + 1]

\* tan(pi * x / 2) for 0 < x < 1.
TanHalfPi(x) == FxDiv(SinPi(Quotient(x, 2)), CosPi(Quotient(x, 2)))

\* a ** n for a >= 0, saturating at 16.
RECURSIVE FxPower(_, _)
FxPower(a, n) ==
    LET cap == 16 * Resolution
        rest == FxMul(IF a > cap THEN cap ELSE a, FxPower(a, n - 1))
    IN  IF n = 0 THEN Resolution ELSE IF rest > cap THEN cap ELSE rest

\* The squared magnitude at the normalised frequency w of the digital
\* Butterworth lowpass that butter(N, Wn) designs (bilinear transform with
\* pre-warped cutoff):
\*   1 / (1 + (tan(pi w / 2) / tan(pi Wn / 2)) ** (2 N)).
ButterMagnitudeSquared(cascade, w) ==
    LET Wn == Fx(cascade.Wn[1][1], cascade.Wn[1][2])
        ratio == FxDiv(TanHalfPi(w), TanHalfPi(Wn))
    IN  FxDiv(Resolution, Resolution + FxPower(ratio, 2 * cascade.N))

\* 10 log10(m) within 0.1 dB of -3 dB: 10 ** -0.31 <= m <= 10 ** -0.29,
\* that is 0.4898 <= m <= 0.5128 to four places.
WithinTenthOfMinus3dB(m) ==
    /\ 4898 * Resolution <= 10000 * m
    /\ 10000 * m <= 5128 * Resolution

\* C19: for every butter_lowpass design with a cutoff inside (0, fs/2) and
\* order >= 2, the magnitude response at the cutoff frequency is within
\* 0.1 dB of -3 dB.
C19_MinusThreeDbAtCutoff ==
    (Designing({"butter_lowpass"}) /\ CutoffInside /\ call.k >= 2)
        => /\ design.status = "returned"
           /\ WithinTenthOfMinus3dB(
                  ButterMagnitudeSquared(design.val, Fx(2 * call.f, call.fs)))

\* A cascade of order 3 whose response is at -3 dB at its cutoff and well
\* below it one Hz higher.
C19_Witness ==
    /\ Designing({"butter_lowpass"})
    /\ CutoffInside /\ call.k = 3 /\ call.fs = 9 /\ call.f = 2
    /\ design.status = "returned"
    /\ WithinTenthOfMinus3dB(
           ButterMagnitudeSquared(design.val, Fx(2 * call.f, call.fs)))
    /\ ~WithinTenthOfMinus3dB(
           ButterMagnitudeSquared(design.val, Fx(2 * (call.f + 1), call.fs)))

(***************************************************************************)
(* Claims about the launcher.                                              *)
(***************************************************************************)
\* text is word, in any mix of upper and lower case, between runs of
\* whitespace.
Spells(text, word) ==
    \E i \in 0..Len(text) : \E j \in i..Len(text) :
        /\ \A k \in 1..i : text[k] \in Whitespace
        /\ \A k \in (j + 1)..Len(text) : text[k] \in Whitespace
        /\ j - i = Len(word)
        /\ \A k \in 1..Len(word) :
               \/ text[i + k] = word[k]
               \/ <<text[i + k]>> = upper(<<word[k]>>)

\* C20: _resolve_host resolves None and the empty string to 127.0.0.1;
\* 'local', 'localhost' and '127.0.0.1' to 127.0.0.1 and 'global',
\* 'public', 'all' and '0.0.0.0' to 0.0.0.0, whatever their case and the
\* whitespace around them; it returns every other value unchanged.
C20_HostResolution ==
    host.status = "returned"
        => host.value =
             (IF hostOption.is_none \/ hostOption.s = <<>> THEN Loopback
              ELSE IF \E w \in {WordLocal, WordLocalhost, Loopback} :
                         Spells(hostOption.s, w)
              THEN Loopback
              ELSE IF \E w \in {WordGlobal, WordPublic, WordAll, AnyAddress} :
                         Spells(hostOption.s, w)
              THEN AnyAddress
              ELSE hostOption.s)

\* An alias of 0.0.0.0 with an upper-case letter and whitespace on both
\* sides has been resolved.
C20_Witness ==
    /\ host.status = "returned"
    /\ host.value = AnyAddress
    /\ ~hostOption.is_none
    /\ Len(hostOption.s) >= 3
    /\ Head(hostOption.s) \in Whitespace
    /\ hostOption.s[Len(hostOption.s)] \in Whitespace
    /\ \E k \in 1..Len(hostOption.s) :
           \E j \in 1..Len(UpperCase) : hostOption.s[k] = UpperCase[j]

\* C21: whenever STREAMLIT_HOST (resp. STREAMLIT_PORT) is set, run_app uses
\* its value for --server.address (resp. --server.port), even when --host
\* (resp. --port) is also given on the command line.
C21_EnvironmentOverridesOptions ==
    sysArgv.status = "set"
        => /\ Truthy(environ.STREAMLIT_HOST)
                => /\ sysArgv.value[4] = ServerAddress
                   /\ sysArgv.value[5] = _resolve_host(environ.STREAMLIT_HOST)
           /\ Truthy(environ.STREAMLIT_PORT)
                => /\ Len(sysArgv.value) >= 7
                   /\ sysArgv.value[6] = ServerPort
                   /\ sysArgv.value[7] = environ.STREAMLIT_PORT.s

\* The position of the first occurrence of an option, 0 when there is none.
FirstAt(l, option) ==
    IF \E i \in 1..Len(l) : l[i] = option
    THEN CHOOSE i \in 1..Len(l) :
             l[i] = option /\ ~\E j \in 1..Len(l) : j < i /\ l[j] = option
    ELSE 0

\* The arguments without the first occurrence of the option and the value
\* following it.
Without(l, option) ==
    LET at == FirstAt(l, option)
    IN  IF at = 0 THEN l
        ELSE [i \in 1..(at - 1) |-> l[i]]
             \o [i \in 1..(Len(l) - at - 1) |-> l[at + 1 + i]]

\* The value following the first occurrence of the option; None when the
\* option is absent or comes last.
Given(l, option) ==
    LET at == FirstAt(l, option)
    IN  IF at = 0 \/ at = Len(l) THEN None ELSE Str(l[at + 1])

\* The value used: the one given if it is a non-empty string, else the
\* environment's.
Used(given, fallback) ==
    IF ~given.is_none /\ given.s # <<>> THEN given ELSE fallback

\* C25: run_app builds sys.argv as ['streamlit', 'run', <file>,
\* '--server.address', host], then '--server.port', port only when a port
\* value is present, then every remaining user argument in its original
\* order; the first occurrence of '--host'/'--port' and the value following
\* it are removed from the remaining arguments, and an option given last
\* with no value is removed and treated as absent.
C25_ArgvLayout ==
    sysArgv.status = "set"
        => LET afterHost == Without(argv, OptionHost)
               remaining == Without(afterHost, OptionPort)
               hostUsed == Used(Given(argv, OptionHost), environ.STREAMLIT_HOST)
               portUsed ==
                   Used(Given(afterHost, OptionPort), environ.STREAMLIT_PORT)
               present == ~portUsed.is_none /\ portUsed.s # <<>>
           IN  sysArgv.value =
                   <<Streamlit, Run, File, ServerAddress,
                     _resolve_host(hostUsed)>>
                   \o (IF present THEN <<ServerPort, portUsed.s>> ELSE <<>>)
                   \o remaining

\* --port was given twice, first with a value and then last with none, and
\* an argument for streamlit stood before it: the first occurrence and its
\* value are gone, the second one and the other argument remain.
C25_Witness ==
    /\ sysArgv.status = "set"
    /\ argv = <<PassedThrough, OptionPort, PortNumber, OptionPort>>
    /\ sysArgv.value =
           <<Streamlit, Run, File, ServerAddress, Loopback,
             ServerPort, PortNumber, PassedThrough, OptionPort>>

\* The orders in which the sections of a cascade can be arranged.
Orders(cascade) ==
    {[i \in 1..Len(cascade) |-> cascade[f[i]]] :
        f \in {g \in [1..Len(cascade) -> 1..Len(cascade)] :
                  \A i, j \in 1..Len(cascade) : i # j => g[i] # g[j]}}

\* C22: in exact arithmetic the order of the sections of a cascade does not
\* change the result: for every signal and every permutation of the
\* cascade's sections, apply_iir returns the same output (and fails for
\* one order exactly if it fails for the other).
C22_SectionOrderIrrelevant ==
    /\ pc[1] = "returned"
         => \A p \in Orders(sos) :
                apply_iir(signal[1], p) =
                    [status |-> "returned", value |-> buf[1]]
    /\ pc[1] = "raised"
         => \A p \in Orders(sos) :
                apply_iir(signal[1], p).status = "ValueError"

\* A call through two different sections has returned an output that is
\* not the input, and the sections taken one by one in the other order pass
\* a different intermediate signal.
C22_Witness ==
    /\ pc[1] = "returned"
    /\ Len(sos) = 2
    /\ sos[1] # sos[2]
    /\ buf[1] # signal[1]
    /\ apply_iir(signal[1], <<sos[1]>>) # apply_iir(signal[1], <<sos[2]>>)

\* C23: apply_fir and apply_iir leave their coefficients unchanged: after
\* any sequence of apply calls the FIR kernel and every section of the
\* cascades hold the values the designer returned, so a designed filter
\* gives the same result on every later use.
C23_CoefficientsUnchanged ==
    /\ main.h = main.designed.h
    /\ main.stages = main.designed.stages
    /\ main.last = "fir" => main.y = apply_fir(main.x, main.designed.h)
    /\ main.last = "iir" /\ Len(main.applied) = 1
         => main.y = apply_iir(main.x, main.designed.stages[main.applied[1]])

\* The kernel, which is not symmetric, has been applied after three earlier
\* apply calls.
C23_Witness ==
    /\ main.calls >= 4
    /\ main.last = "fir"
    /\ main.y.status = "returned"
    /\ main.h # Reverse(main.h)

\* C26: applying two cascades one after the other equals applying their
\* concatenation: apply_iir(apply_iir(x, s1), s2) is
\* apply_iir(x, s1 followed by s2), in the value returned and in failing.
C26_ChainIsConcatenation ==
    main.last = "iir" /\ Len(main.applied) = 2
        => main.y = apply_iir(main.x, main.stages[main.applied[1]]
                                        \o main.stages[main.applied[2]])

\* Two different cascades, the first of two sections, have been applied
\* one after the other and the result is not the input.
C26_Witness ==
    /\ main.last = "iir"
    /\ main.applied = <<1, 2>>
    /\ Len(main.stages[1]) = 2
    /\ main.stages[1] # main.stages[2]
    /\ main.y.status = "returned"
    /\ main.y.value # main.x

\* The signals of the length of xs that agree with xs up to index last.
AgreeingUpTo(xs, last) ==
    {other \in [1..Len(xs) -> Samples] :
        \A i \in 1..Len(xs) : i <= last => other[i] = xs[i]}

\* C27: apply_iir is causal: for every signal x, cascade and k <= len(x),
\* the first k output samples of apply_iir(x) equal apply_iir of the first
\* k samples of x, whereas apply_fir output sample n may depend on input
\* samples up to n + floor(len(taps)/2) (and on none after them).
C27_IirCausalFirLooksAhead ==
    /\ main.last = "iir" /\ Len(main.applied) = 1
        /\ main.y.status = "returned"
         => \A k \in 0..Len(main.x) :
                apply_iir(SubSeq(main.x, 1, k), main.stages[main.applied[1]])
                    = [status |-> "returned",
                       value |-> SubSeq(main.y.value, 1, k)]
    /\ main.last = "fir" /\ main.y.status = "returned"
         => \A n \in 1..Len(main.y.value) :
                \A other \in AgreeingUpTo(main.x, n + Len(main.h) \div 2) :
                    apply_fir(other, main.h).value[n] = main.y.value[n]

\* C24: parametric_eq, shelving_lowshelf and shelving_highshelf reject at
\* design time every center/cutoff frequency outside (0, fs/2): such a call
\* raises InvalidParameter (ValueError) and never returns a section.
C24_EqualizerFrequencyRejected ==
    (Designing(Equalizers) /\ ~CutoffInside) => design.status = "ValueError"

\* C28: for every sample rate fs and every combination of slider positions
\* the GUI allows, the frequencies passed to a designer satisfy the
\* FilterSpec invariant: each lies strictly between 0 and fs/2, and for the
\* FIR and IIR bandstop filters f1 < f2.
C28_GuiFrequenciesValid ==
    call.fn # "none"
        => /\ call.f > 0
           /\ 2 * call.f < call.fs
           /\ call.fn \in {"fir_bandstop", "butter_bandstop"}
                => /\ call.f2 > 0
                   /\ 2 * call.f2 < call.fs
                   /\ call.f < call.f2

\* C29: adsr_envelope(n, sr, a, d, s, r) only writes indices inside 0..n-1
\* and returns a list of exactly n values for every n >= 0, including n
\* smaller than the attack plus decay sample counts.
C29_EnvelopeWritesInside ==
    /\ adsr.phase # "IndexError"
    /\ adsr.phase = "returned" => Len(adsr.env) = adsr.n

====
